---- MODULE Spec2Model ----
(***************************************************************************)
(* Model of the Dynamic Island renderer (electron/renderer/app.js): the    *)
(* WebSocket connection with its reconnect timer, the handlers that merge  *)
(* backend messages into the application state, the collapsed-status       *)
(* projection and the island expand/collapse transition.                   *)
(* The main process's animated window resize (electron/main.js) and the    *)
(* live activities of the store (renderer/lib/store.js) follow.            *)
(***************************************************************************)
EXTENDS Integers, FiniteSets, Sequences, TLC

(***************************************************************************)
(* Bounds of the exploration (not program constants).                      *)
(***************************************************************************)
MaxAttempts == 3
MaxSockets == 3
MaxFrames == 2
MaxRequests == 2

(***************************************************************************)
(* Encodings.                                                              *)
(***************************************************************************)
\* JavaScript null in a numeric field (bluetooth.batteryLeft/batteryRight)
Null == -1

(***************************************************************************)
(* Program constants: island and window geometry, in pixels.               *)
(***************************************************************************)
ExpandedWidth == 400
ExpandedHeight == 380
CollapsedWidth == 680
CollapsedHeight == 32
\* added to the island's box for the window (updateWindowSize)
ChromeMargin == 20
\* the window height requested while a modal is open
ModalHeight == 450
\* below this width the island counts as minimized and no resize is requested
MinimizedWidth == 10
\* main process: the window as created, the size islandState records at start,
\* and the number of steps of an animated resize
IslandWidth == 680
IslandHeight == 32
RecordedWidth == 200
RecordedHeight == 40
Steps == 20

VARIABLES
  \* state.connection
  isConnected,        \* state.connection.isConnected
  reconnectAttempts,  \* state.connection.reconnectAttempts
  reconnectInterval,  \* state.connection.reconnectInterval is non-null
  wsState,            \* readyState of the socket state.connection.ws refers to
  \* the browser's side of the connection
  liveTimers,         \* interval timers created by setInterval and not cleared
  staleConnecting,    \* sockets no longer referenced by state.connection.ws, still connecting
  staleOpen,          \* sockets no longer referenced by state.connection.ws, open
  wire,               \* the frames transmitted to the backend, in order
  \* the backend
  stable,             \* the backend accepts every connection and keeps it open from now on
  \* state.system, state.liveActivities, state.ui
  system,
  media,
  timer,
  bluetooth,
  navbarState,        \* state.ui.navbarState
  greetingText,       \* state.ui.greetingText ("" models null)
  \* DOM
  statusText,         \* elements.statusText.textContent
  dataState,          \* elements.island.dataset.state
  progressFill,       \* elements.mediaProgressFill.style.width, in tenths of a percent
  statusDot,          \* the class 'disconnected' of elements.statusDot
  \* state.island and the transition in flight
  isExpanded,
  isAnimating,
  togglePc,           \* the await at which toggleIsland is suspended ("idle" when none)
  visibleModals,      \* the modals without the class 'hidden'
  closingModals,      \* the modals whose closing tween (toggleModal) is in flight
  pendingModal,       \* the modal whose toggleModal call awaits toggleIsland ("none")
  mouseCaptured,      \* last setIgnoreMouseEvents call was (false)
  staggerRunning,     \* the stagger tween of the expanded view's children is in flight
  islandRect,         \* the island's bounding box <<width, height>>, rounded up
  observerPending,    \* the debounced ResizeObserver callback is scheduled
  lastResize,         \* the last window.resize request sent (<<0, 0>>: none yet)
  \* the main process
  winBounds,          \* the window's size <<width, height>> (mainWindow.getBounds())
  islandStateSize,    \* <<islandState.currentWidth, islandState.currentHeight>>
  resizeTimers,       \* the island:resize calls suspended at their setTimeout, in firing order
  requestsMade,       \* island:resize invocations received
  lastRequest,        \* the size the latest invocation asked for
  overlapped,         \* the size asked for by the call in flight when the latest arrived
  \* lib/store.js
  useStore,           \* the store's liveActivities
  \* history variables
  lastOp,             \* the handler that ran last
  failures,           \* connection attempts closed without opening, since start / last Connected
  ticks,              \* reconnect timer callbacks run, since start / last Connected
  pre,                \* state.connection as the last connection handler found it
  preModals,          \* the visible modals as the last island event found them
  clockRead           \* the last message handler called getGreeting()

connVars == <<isConnected, reconnectAttempts, reconnectInterval, wsState,
              liveTimers, staleConnecting, staleOpen, stable, wire>>
storeVars == <<system, media, timer, bluetooth>>
uiVars == <<navbarState, greetingText, statusText, dataState, progressFill, statusDot>>
islandVars == <<isExpanded, isAnimating, togglePc, visibleModals, closingModals,
               pendingModal, mouseCaptured, staggerRunning, islandRect,
               observerPending, lastResize>>
histVars == <<lastOp, failures, ticks, pre, preModals, clockRead>>
mainVars == <<winBounds, islandStateSize, resizeTimers, requestsMade, lastRequest, overlapped>>
vars == <<connVars, storeVars, uiVars, islandVars, mainVars, useStore, histVars>>

(***************************************************************************)
(* Initial state: the module-level `state` object, then init().            *)
(***************************************************************************)
InitSystem ==
  [battery |-> [percent |-> 0, isCharging |-> FALSE],
   cpu |-> 0, ram |-> 0,
   network |-> [status |-> "disconnected", type |-> "wifi"]]

InitMedia ==
  [isActive |-> FALSE, isPlaying |-> FALSE, title |-> "", artist |-> "",
   progress |-> 0, duration |-> 0]

InitTimer == [isActive |-> FALSE, remaining |-> 0]

InitBluetooth == [isActive |-> FALSE, deviceName |-> "", battery |-> Null]

\* liveActivities of lib/store.js
InitLiveActivities ==
  [media |-> [isActive |-> FALSE, isPlaying |-> FALSE, title |-> "", artist |-> "",
              album |-> "", progress |-> 0, duration |-> 0, artworkUrl |-> Null],
   timer |-> [isActive |-> FALSE, remaining |-> 0, total |-> 0],
   bluetooth |-> [isActive |-> FALSE, deviceName |-> "", batteryLeft |-> Null,
                  batteryRight |-> Null],
   download |-> [isActive |-> FALSE, filename |-> "", progress |-> 0, speed |-> 0]]

\* init() ends by calling connectToBackend(): the first socket is connecting.
Init ==
  /\ isConnected = FALSE
  /\ reconnectAttempts = 0
  /\ reconnectInterval = FALSE
  /\ wsState = "connecting"
  /\ liveTimers = 0
  /\ staleConnecting = 0
  /\ staleOpen = 0
  /\ stable = FALSE
  /\ wire = <<>>
  /\ system = InitSystem
  /\ media = InitMedia
  /\ timer = InitTimer
  /\ bluetooth = InitBluetooth
  /\ navbarState = "greeting"
  /\ greetingText = ""
  /\ statusText = "Connecting..."
  /\ dataState = "collapsed"
  /\ progressFill = 0
  /\ statusDot = "asLoaded"
  /\ isExpanded = FALSE
  /\ isAnimating = FALSE
  /\ togglePc = "idle"
  /\ visibleModals = {}
  /\ closingModals = {}
  /\ pendingModal = "none"
  /\ mouseCaptured = FALSE
  /\ staggerRunning = FALSE
  /\ islandRect = <<CollapsedWidth, CollapsedHeight>>
  /\ observerPending = TRUE
  /\ lastResize = <<0, 0>>
  /\ winBounds = <<IslandWidth, IslandHeight>>
  /\ islandStateSize = <<RecordedWidth, RecordedHeight>>
  /\ resizeTimers = <<>>
  /\ requestsMade = 0
  /\ lastRequest = <<0, 0>>
  /\ overlapped = <<0, 0>>
  /\ useStore = InitLiveActivities
  /\ preModals = {}
  /\ clockRead = FALSE
  /\ lastOp = "init"
  /\ failures = 0
  /\ ticks = 0
  /\ pre = [isConnected |-> FALSE, reconnectAttempts |-> 0, reconnectInterval |-> FALSE]

PreConnection ==
  [isConnected |-> isConnected, reconnectAttempts |-> reconnectAttempts,
   reconnectInterval |-> reconnectInterval]

(***************************************************************************)
(* WEBSOCKET CONNECTION                                                    *)
(***************************************************************************)
Sockets == {"cur", "stale"}

LiveSockets == (IF wsState \in {"connecting", "open"} THEN 1 ELSE 0)
                 + staleConnecting + staleOpen

ConnectingSockets == (IF wsState = "connecting" THEN 1 ELSE 0) + staleConnecting

\* connectToBackend(): the status text, then a new socket replaces the one
\* state.connection.ws referred to; the replaced socket keeps its handlers.
ConnectToBackend ==
  /\ statusText' = "Connecting..."
  /\ wsState' = "connecting"
  /\ staleConnecting' = staleConnecting + (IF wsState = "connecting" THEN 1 ELSE 0)
  /\ staleOpen' = staleOpen + (IF wsState = "open" THEN 1 ELSE 0)

\* a socket leaves the connecting state by opening (s is open afterwards)
SocketOpens(s) ==
  IF s = "cur"
  THEN /\ wsState = "connecting"
       /\ wsState' = "open"
       /\ UNCHANGED <<staleConnecting, staleOpen>>
  ELSE /\ staleConnecting > 0
       /\ staleConnecting' = staleConnecting - 1
       /\ staleOpen' = staleOpen + 1
       /\ UNCHANGED wsState

\* a connecting or open socket closes; wasOpen tells which it was
SocketCloses(s, wasOpen) ==
  IF s = "cur"
  THEN /\ wsState = (IF wasOpen THEN "open" ELSE "connecting")
       /\ wsState' = "closed"
       /\ UNCHANGED <<staleConnecting, staleOpen>>
  ELSE /\ IF wasOpen
          THEN staleOpen > 0 /\ staleOpen' = staleOpen - 1 /\ UNCHANGED staleConnecting
          ELSE staleConnecting > 0 /\ staleConnecting' = staleConnecting - 1
                 /\ UNCHANGED staleOpen
       /\ UNCHANGED wsState

\* onopen that leaves the reconnect timer running
OnOpenHandler_KeepsTimer ==
  /\ isConnected' = TRUE
  /\ reconnectAttempts' = 0
  /\ statusText' = "Connected"
  /\ UNCHANGED <<liveTimers, reconnectInterval>>

\* onopen that does not reset reconnectAttempts
OnOpenHandler_NoReset ==
  /\ isConnected' = TRUE
  /\ UNCHANGED reconnectAttempts
  /\ statusText' = "Connected"
  /\ IF reconnectInterval
     THEN liveTimers' = liveTimers - 1 /\ reconnectInterval' = FALSE
     ELSE UNCHANGED <<liveTimers, reconnectInterval>>

\* ws.onopen
OnOpenHandler ==
  /\ isConnected' = TRUE
  /\ reconnectAttempts' = 0
  /\ statusText' = "Connected"
  /\ IF reconnectInterval
     THEN liveTimers' = liveTimers - 1 /\ reconnectInterval' = FALSE
     ELSE UNCHANGED <<liveTimers, reconnectInterval>>

OnOpen(s) ==
  /\ SocketOpens(s)
  /\ OnOpenHandler
  /\ lastOp' = "onopen"
  /\ failures' = 0
  /\ ticks' = 0
  /\ pre' = PreConnection
  /\ UNCHANGED <<stable, wire, storeVars, navbarState, greetingText, dataState,
                 progressFill, statusDot, islandVars, mainVars, useStore, preModals, clockRead>>

\* onclose that schedules a timer without testing for a pending one
OnCloseHandler_NoPresenceTest ==
  /\ isConnected' = FALSE
  /\ statusText' = "Disconnected"
  /\ liveTimers' = liveTimers + 1
  /\ reconnectInterval' = TRUE

\* onclose that schedules a reconnect only for a connection that had opened
OnCloseHandler_OnlyAfterConnected ==
  /\ isConnected' = FALSE
  /\ statusText' = "Disconnected"
  /\ IF isConnected /\ ~reconnectInterval
     THEN liveTimers' = liveTimers + 1 /\ reconnectInterval' = TRUE
     ELSE UNCHANGED <<liveTimers, reconnectInterval>>

\* onclose that never schedules a reconnect
OnCloseHandler_NoReschedule ==
  /\ isConnected' = FALSE
  /\ statusText' = "Disconnected"
  /\ UNCHANGED <<liveTimers, reconnectInterval>>

\* ws.onclose (a refused connection fires onerror, which only logs, then onclose)
OnCloseHandler ==
  /\ isConnected' = FALSE
  /\ statusText' = "Disconnected"
  /\ IF ~reconnectInterval
     THEN liveTimers' = liveTimers + 1 /\ reconnectInterval' = TRUE
     ELSE UNCHANGED <<liveTimers, reconnectInterval>>

OnClose(s, wasOpen) ==
  /\ ~stable
  /\ SocketCloses(s, wasOpen)
  /\ OnCloseHandler
  /\ lastOp' = "onclose"
  /\ failures' = IF wasOpen THEN failures ELSE failures + 1
  /\ pre' = PreConnection
  /\ UNCHANGED <<reconnectAttempts, stable, wire, storeVars, navbarState, greetingText,
                 dataState, progressFill, statusDot, islandVars, mainVars, useStore, preModals, clockRead,
                 ticks>>

\* a timer callback that reconnects without counting the attempt
ReconnectTickHandler_NoIncrement ==
  /\ UNCHANGED reconnectAttempts
  /\ ConnectToBackend

\* the setInterval callback installed by onclose
ReconnectTickHandler ==
  /\ reconnectAttempts' = reconnectAttempts + 1
  /\ ConnectToBackend

ReconnectTickCode ==
  /\ liveTimers > 0
  /\ ReconnectTickHandler
  /\ lastOp' = "tick"
  /\ ticks' = ticks + 1
  /\ pre' = PreConnection
  /\ UNCHANGED <<isConnected, reconnectInterval, liveTimers, stable, wire, storeVars,
                 navbarState, greetingText, dataState, progressFill, statusDot, islandVars, mainVars, useStore,
                 preModals,
                 clockRead,
                 failures>>

\* The exploration stops counting at MaxAttempts and MaxSockets, except that a
\* tick with no attempt in flight is always explored once the backend is stable.
ReconnectTick ==
  /\ \/ reconnectAttempts < MaxAttempts /\ LiveSockets < MaxSockets
     \/ stable /\ ConnectingSockets = 0
  /\ ReconnectTickCode

\* the backend comes up for good
Stabilize ==
  /\ ~stable
  /\ stable' = TRUE
  /\ lastOp' = "stabilize"
  /\ UNCHANGED <<isConnected, reconnectAttempts, reconnectInterval, wsState,
                 liveTimers, staleConnecting, staleOpen, wire, storeVars, uiVars,
                 islandVars, mainVars, useStore, preModals, clockRead, failures, ticks, pre>>

NextConn ==
  \/ \E s \in Sockets : OnOpen(s)
  \/ \E s \in Sockets, wasOpen \in BOOLEAN : OnClose(s, wasOpen)
  \/ ReconnectTick
  \/ Stabilize

SpecConn == Init /\ [][NextConn]_vars

\* Timer callbacks and socket events that are due are eventually delivered.
SpecConnLive ==
  /\ Init /\ [][NextConn]_vars
  /\ WF_vars(ReconnectTick)
  /\ WF_vars(\E s \in Sockets : OnOpen(s))

(***************************************************************************)
(* COMMANDS                                                                *)
(***************************************************************************)
\* the calls of sendCommand in setupEventListeners: <<type, action, data>>
Commands ==
  {<<"media_control", "toggle", <<>>>>,
   <<"media_control", "previous", <<>>>>,
   <<"media_control", "next", <<>>>>,
   <<"system_control", "volume", [value |-> 50]>>}

\* { type, action, ...data }
Frame(c) ==
  LET head == [type |-> c[1], action |-> c[2]]
  IN  [k \in DOMAIN head \cup DOMAIN c[3] |-> IF k \in DOMAIN c[3] THEN c[3][k] ELSE head[k]]

\* WebSocket.send on the socket state.connection.ws refers to: an open socket
\* transmits the frame, a connecting one throws InvalidStateError, a closed one
\* discards the data
SocketSend(frame) == IF wsState = "open" THEN Append(wire, frame) ELSE wire

\* sendCommand(type, action, data)
sendCommand(c) == IF isConnected THEN SocketSend(Frame(c)) ELSE wire

SendCommand(c) ==
  /\ Len(wire) < MaxFrames
  /\ wire' = sendCommand(c)
  /\ lastOp' = "sendCommand"
  /\ UNCHANGED <<isConnected, reconnectAttempts, reconnectInterval, wsState, liveTimers,
                 staleConnecting, staleOpen, stable, storeVars, uiVars, islandVars, mainVars, useStore,
                 preModals, clockRead,
                 failures, ticks, pre>>

\* the connection and the commands of the user
NextCmd ==
  \/ \E s \in Sockets : OnOpen(s)
  \/ \E s \in Sockets, wasOpen \in BOOLEAN : OnClose(s, wasOpen)
  \/ ReconnectTick
  \/ \E c \in Commands : SendCommand(c)

SpecCmd == Init /\ [][NextCmd]_vars

(***************************************************************************)
(* BACKEND MESSAGES                                                        *)
(* The data of a message is a record over the keys the frame carries; a    *)
(* key the frame does not carry is not in its DOMAIN (undefined in JS).    *)
(***************************************************************************)
Restrict(f, D) == [k \in D |-> f[k]]

Has(data, k) == k \in DOMAIN data

\* system.data; network is the string "connected"/"disconnected" or an
\* object {connected: bool}, written here "objTrue"/"objFalse"
SystemKeys == {"battery", "isCharging", "cpu", "ram", "network"}
NetworkValues == {"connected", "disconnected", "objTrue", "objFalse"}
SystemFull ==
  [battery: {-5, 0, 150}, isCharging: BOOLEAN, cpu: {45, 120}, ram: {-1},
   network: NetworkValues]
SystemMsgs == {Restrict(f, D) : f \in SystemFull, D \in SUBSET SystemKeys}

SystemMsgsFew == {[cpu |-> 45]}

MediaKeys == {"isActive", "isPlaying", "title", "artist", "progress", "duration"}
MediaFull ==
  [isActive: BOOLEAN, isPlaying: BOOLEAN, title: {"Blinding Lights", "Now Playing"},
   artist: {"The Weeknd"}, progress: {45, 250}, duration: {200}]
MediaMsgs == {Restrict(f, D) : f \in MediaFull, D \in SUBSET MediaKeys}
MediaFullFew ==
  [isActive: BOOLEAN, isPlaying: BOOLEAN, title: {"Blinding Lights"}, progress: {45}]
MediaMsgsFew ==
  {Restrict(f, D) : f \in MediaFullFew,
                    D \in SUBSET {"isActive", "isPlaying", "title", "progress"}}

TimerKeys == {"isActive", "remaining", "total"}
TimerFull == [isActive: BOOLEAN, remaining: {90}, total: {60}]
TimerMsgs == {Restrict(f, D) : f \in TimerFull, D \in SUBSET TimerKeys}
TimerMsgsFew == {Restrict(f, D) : f \in TimerFull, D \in SUBSET {"isActive", "total"}}

BluetoothKeys == {"isActive", "deviceName", "batteryLeft"}
BluetoothFull == [isActive: BOOLEAN, deviceName: {"AirPods"}, batteryLeft: {80, Null}]
BluetoothMsgs == {Restrict(f, D) : f \in BluetoothFull, D \in SUBSET BluetoothKeys}
BluetoothMsgsFew ==
  {Restrict(f, D) : f \in [isActive: BOOLEAN, batteryLeft: {80}],
                    D \in SUBSET {"isActive", "batteryLeft"}}

\* { ...stored, ...data }
Merge(stored, data) ==
  [k \in DOMAIN stored \cup DOMAIN data |-> IF k \in DOMAIN data THEN data[k] ELSE stored[k]]

\* utils.js clamp(value, min, max); app.js never calls it
clamp(value, min, max) ==
  LET lo == IF value > min THEN value ELSE min
  IN  IF lo < max THEN lo ELSE max

\* utils.js getGreeting(), for the hour of the wall clock
Hours == 0..23
getGreeting(hour) ==
  IF hour < 12 THEN "Good morning"
  ELSE IF hour < 17 THEN "Good afternoon"
  ELSE IF hour < 21 THEN "Good evening"
  ELSE "Good night"

\* the separator of the music headline (U+2022 between two spaces in app.js)
Bullet == " . "

Placeholders == {"Now Playing", "System Audio", "Playing"}

\* updateCollapsedStatus(), reading the media slice m as just stored
updateCollapsedStatus(m) ==
  /\ statusDot' = (IF isConnected THEN "plain" ELSE "disconnected")
  /\ IF m.isActive /\ m.isPlaying
     THEN /\ dataState' = "music"
          /\ statusText' = (IF m.title # "" /\ m.title \notin Placeholders
                            THEN m.title \o Bullet \o m.artist
                            ELSE "Now Playing")
          /\ navbarState' = "activity"
          /\ clockRead' = FALSE
          /\ UNCHANGED greetingText
     ELSE /\ IF greetingText = ""
             THEN /\ \E hour \in Hours : greetingText' = getGreeting(hour)
                  /\ clockRead' = TRUE
             ELSE /\ UNCHANGED greetingText
                  /\ clockRead' = FALSE
          /\ statusText' = greetingText'
          /\ navbarState' = "greeting"
          /\ dataState' = (IF dataState = "music" THEN "collapsed" ELSE dataState)

\* the network test of updateSystemData
NetworkIsConnected(n) == n = "connected" \/ n = "objTrue"

\* the battery branch of updateSystemData
StoreBattery(data) ==
  IF Has(data, "battery")
  THEN [percent |-> data.battery,
        isCharging |-> (IF Has(data, "isCharging") THEN data.isCharging ELSE FALSE)]
  ELSE system.battery

\* the network branch of updateSystemData (every network value of the wire
\* protocol is truthy)
StoreNetwork(data) ==
  IF Has(data, "network")
  THEN [system.network EXCEPT
          !.status = IF NetworkIsConnected(data.network) THEN "connected" ELSE "disconnected"]
  ELSE system.network

\* updateSystemData(data)
updateSystemData(data) ==
  /\ system' = [battery |-> StoreBattery(data),
                cpu |-> (IF Has(data, "cpu") THEN data.cpu ELSE system.cpu),
                ram |-> (IF Has(data, "ram") THEN data.ram ELSE system.ram),
                network |-> StoreNetwork(data)]
  /\ updateCollapsedStatus(media)
  /\ UNCHANGED <<media, timer, bluetooth, progressFill>>

\* the progress bar of updateMediaActivity, cut to a whole percent
ProgressPercent10_WholePercent(m) == ((m.progress * 100) \div m.duration) * 10

\* the progress bar of updateMediaActivity, in tenths of a percent
ProgressPercent10(m) == (m.progress * 1000) \div m.duration

\* updateMediaActivity(data)
updateMediaActivity(data) ==
  /\ media' = Merge(media, data)
  /\ progressFill' = (IF media'.isActive /\ media'.duration > 0
                      THEN ProgressPercent10(media') ELSE progressFill)
  /\ updateCollapsedStatus(media')
  /\ UNCHANGED <<system, timer, bluetooth>>

\* a timer handler that merges into the media slice
updateTimerActivity_IntoMedia(data) ==
  /\ media' = Merge(media, data)
  /\ updateCollapsedStatus(media')
  /\ UNCHANGED <<system, timer, bluetooth, progressFill>>

\* a timer handler that gives an active timer the headline
updateTimerActivity_TakesHeadline(data) ==
  /\ timer' = Merge(timer, data)
  /\ IF timer'.isActive
     THEN /\ statusText' = "Timer"
          /\ navbarState' = "activity"
          /\ clockRead' = FALSE
          /\ UNCHANGED <<greetingText, dataState, statusDot>>
     ELSE updateCollapsedStatus(media)
  /\ UNCHANGED <<system, media, bluetooth, progressFill>>

\* updateTimerActivity(data)
updateTimerActivity(data) ==
  /\ timer' = Merge(timer, data)
  /\ updateCollapsedStatus(media)
  /\ UNCHANGED <<system, media, bluetooth, progressFill>>

\* a bluetooth handler without the closing updateCollapsedStatus()
updateBluetoothActivity_NoProject(data) ==
  /\ bluetooth' = Merge(bluetooth, data)
  /\ UNCHANGED <<system, media, timer, progressFill, uiVars, clockRead>>

\* updateBluetoothActivity(data)
updateBluetoothActivity(data) ==
  /\ bluetooth' = Merge(bluetooth, data)
  /\ updateCollapsedStatus(media)
  /\ UNCHANGED <<system, media, timer, progressFill>>

\* handleNotification(data) and handleWindowUpdate(data): the notification
\* list and the active application's name, which the model does not hold
handleOther(data) ==
  /\ clockRead' = FALSE
  /\ UNCHANGED <<storeVars, uiVars>>

\* handleBackendMessage(message) with an unknown kind handled as a timer frame
handleBackendMessage_UnknownAsTimer(type, data) ==
  CASE type = "system" -> updateSystemData(data)
    [] type = "media" -> updateMediaActivity(data)
    [] type = "timer" -> updateTimerActivity(data)
    [] type = "bluetooth" -> updateBluetoothActivity(data)
    [] type \in {"notification", "window"} -> handleOther(data)
    [] OTHER -> updateTimerActivity(data)

\* handleBackendMessage(message); the default branch only logs
handleBackendMessage(type, data) ==
  CASE type = "system" -> updateSystemData(data)
    [] type = "media" -> updateMediaActivity(data)
    [] type = "timer" -> updateTimerActivity(data)
    [] type = "bluetooth" -> updateBluetoothActivity(data)
    [] type \in {"notification", "window"} -> handleOther(data)
    [] OTHER -> /\ clockRead' = FALSE
                /\ UNCHANGED <<storeVars, uiVars>>

\* ws.onmessage held back while a transition of the island is in flight
OnMessageData_Deferred(type, data) ==
  /\ wsState = "open" \/ staleOpen > 0
  /\ ~isAnimating
  /\ handleBackendMessage(type, data)
  /\ lastOp' = type
  /\ UNCHANGED <<connVars, islandVars, mainVars, useStore, preModals, failures, ticks, pre>>

\* ws.onmessage of an open socket, for the frame {type, data}
OnMessageData(type, data) ==
  /\ wsState = "open" \/ staleOpen > 0
  /\ handleBackendMessage(type, data)
  /\ lastOp' = type
  /\ UNCHANGED <<connVars, islandVars, mainVars, useStore, preModals, failures, ticks, pre>>

OnMessage(type, Msgs) == \E data \in Msgs : OnMessageData(type, data)

\* the frames that are not store frames: text that JSON.parse rejects, a kind
\* handleBackendMessage does not know, a notification, a window update
BadFrames ==
  {[json |-> FALSE], [json |-> TRUE, type |-> "weather", data |-> [isActive |-> TRUE]]}
RawFrames ==
  BadFrames \cup
  {[json |-> TRUE, type |-> "notification", data |-> [title |-> "Build done"]],
   [json |-> TRUE, type |-> "window", data |-> [title |-> "Editor"]]}

\* ws.onmessage of an open socket for the raw frame: the catch logs what
\* JSON.parse or the handler throws
OnRawFrame(raw) ==
  /\ wsState = "open" \/ staleOpen > 0
  /\ IF raw.json
     THEN handleBackendMessage(raw.type, raw.data)
     ELSE clockRead' = FALSE /\ UNCHANGED <<storeVars, uiVars>>
  /\ lastOp' = (IF raw \in BadFrames THEN "dropped" ELSE raw.type)
  /\ UNCHANGED <<connVars, islandVars, mainVars, useStore, preModals, failures, ticks, pre>>

\* system frames over a backend that stays up
NextSystem ==
  \/ OnOpen("cur")
  \/ OnMessage("system", SystemMsgs)

SpecSystem == Init /\ [][NextSystem]_vars

\* frames of every kind
NextStore ==
  \/ OnOpen("cur")
  \/ OnMessage("system", SystemMsgsFew)
  \/ OnMessage("media", MediaMsgsFew)
  \/ OnMessage("timer", TimerMsgsFew)
  \/ OnMessage("bluetooth", BluetoothMsgsFew)

SpecStore == Init /\ [][NextStore]_vars

\* media and timer frames over every combination of their keys
NextActivities ==
  \/ OnOpen("cur")
  \/ OnMessage("media", MediaMsgs)
  \/ OnMessage("timer", TimerMsgs)

SpecActivities == Init /\ [][NextActivities]_vars

(***************************************************************************)
(* ISLAND TRANSITIONS AND MODALS                                           *)
(* The handlers are functions of the island record i: state.island, the    *)
(* island's data-state attribute, the modals' classes and tweens, the      *)
(* window's mouse capture and the suspended calls.                         *)
(***************************************************************************)
ModalIds ==
  {"control-center-modal", "wifi-modal", "bluetooth-modal", "battery-modal",
   "notification-modal"}

IslandRec ==
  [isExpanded |-> isExpanded, isAnimating |-> isAnimating, togglePc |-> togglePc,
   visibleModals |-> visibleModals, closingModals |-> closingModals,
   pendingModal |-> pendingModal, mouseCaptured |-> mouseCaptured,
   staggerRunning |-> staggerRunning, islandRect |-> islandRect,
   observerPending |-> observerPending, lastResize |-> lastResize,
   dataState |-> dataState]

SetIsland(i) ==
  /\ isExpanded' = i.isExpanded
  /\ isAnimating' = i.isAnimating
  /\ togglePc' = i.togglePc
  /\ visibleModals' = i.visibleModals
  /\ closingModals' = i.closingModals
  /\ pendingModal' = i.pendingModal
  /\ mouseCaptured' = i.mouseCaptured
  /\ staggerRunning' = i.staggerRunning
  /\ islandRect' = i.islandRect
  /\ observerPending' = i.observerPending
  /\ lastResize' = i.lastResize
  /\ dataState' = i.dataState

\* the await after the one at pc, in order, for each direction ("done": none left)
NextAwait(pc) ==
  CASE pc = "e_morph" -> "e_fadeOut"
    [] pc = "e_fadeOut" -> "e_fadeIn"
    [] pc = "e_fadeIn" -> "e_resize"
    [] pc = "e_resize" -> "done"
    [] pc = "c_fadeOut" -> "c_morph"
    [] pc = "c_morph" -> "c_fadeIn"
    [] pc = "c_fadeIn" -> "c_resize"
    [] pc = "c_resize" -> "done"

\* the sizes toggleIsland morphs the island to and requests for the window
ExpandedSize == <<ExpandedWidth, ExpandedHeight>>
CollapsedSize == <<CollapsedWidth, CollapsedHeight>>

\* the island's box while a morph tween is running: between the two sizes
MidMorph == <<(ExpandedWidth + CollapsedWidth) \div 2, (ExpandedHeight + CollapsedHeight) \div 2>>

\* the boxes getBoundingClientRect and Math.ceil can give once the island has
\* been morphed to `size`: the size itself, or one more for a fractional box
Measured(size) == {size, <<size[1] + 1, size[2] + 1>>}

\* a morph tween changes the island's box: the ResizeObserver callback is
\* (re)scheduled by its debounce
morphTo(i, rect) == [i EXCEPT !.islandRect = rect, !.observerPending = TRUE]

\* captureMouse()
captureMouse(i) == [i EXCEPT !.mouseCaptured = TRUE]

\* releaseMouse(): only if no modal is open
releaseMouse(i) ==
  IF i.visibleModals = {} THEN [i EXCEPT !.mouseCaptured = FALSE] ELSE i

\* updateWindowSize() requesting the island's box as measured
updateWindowSize_NoMargin(i) ==
  IF i.islandRect[1] < MinimizedWidth THEN i
  ELSE [i EXCEPT !.lastResize =
          <<i.islandRect[1],
            IF i.visibleModals # {} THEN ModalHeight ELSE i.islandRect[2]>>]

\* updateWindowSize(), the window bridge being present
updateWindowSize(i) ==
  IF i.islandRect[1] < MinimizedWidth THEN i
  ELSE [i EXCEPT !.lastResize =
          <<i.islandRect[1] + ChromeMargin,
            IF i.visibleModals # {} THEN ModalHeight ELSE i.islandRect[2] + ChromeMargin>>]

\* toggleIsland() that flips isExpanded and leaves isAnimating alone
toggleIslandStart_NoAnimating(i) ==
  LET flipped == [i EXCEPT !.isExpanded = ~i.isExpanded,
                           !.dataState = IF ~i.isExpanded THEN "expanded" ELSE "collapsed"]
      moused == IF flipped.isExpanded THEN captureMouse(flipped) ELSE releaseMouse(flipped)
  IN  [moused EXCEPT !.visibleModals = {}]

\* toggleIsland() from the isAnimating test passed to the first await: the
\* expansion starts its morph tween, the collapse its fade-out
toggleIslandStart(i) ==
  LET flipped == [i EXCEPT !.isAnimating = TRUE,
                           !.isExpanded = ~i.isExpanded,
                           !.dataState = IF ~i.isExpanded THEN "expanded" ELSE "collapsed"]
      moused == IF flipped.isExpanded THEN captureMouse(flipped) ELSE releaseMouse(flipped)
      hidden == [moused EXCEPT !.visibleModals = {}]
  IN  IF hidden.isExpanded
      THEN [morphTo(hidden, MidMorph) EXCEPT !.togglePc = "e_morph"]
      ELSE [hidden EXCEPT !.togglePc = "c_fadeOut"]

\* toggleIsland() without the isAnimating test
toggleIsland_NoGuard(i) == toggleIslandStart(i)

\* toggleIsland(), up to its first await
toggleIsland(i) == IF i.isAnimating THEN i ELSE toggleIslandStart(i)

\* toggleModal(id) after its await, the other modals left as they are
toggleModalRest_KeepsOthers(i, id) ==
  IF id \notin i.visibleModals
  THEN updateWindowSize(captureMouse([i EXCEPT !.visibleModals = i.visibleModals \cup {id}]))
  ELSE [i EXCEPT !.closingModals = i.closingModals \cup {id}]

\* toggleModal(id) after its await: the other modals are hidden and their
\* tweens killed; a hidden modal is shown, a shown one starts its closing tween
toggleModalRest(i, id) ==
  LET others == [i EXCEPT !.visibleModals = i.visibleModals \cap {id},
                          !.closingModals = i.closingModals \cap {id}]
  IN  IF id \notin i.visibleModals
      THEN updateWindowSize(captureMouse([others EXCEPT !.visibleModals = {id}]))
      ELSE [others EXCEPT !.closingModals = {id}]

\* toggleModal(id): suspended until the collapse it started completes, or run
\* through when toggleIsland was not called or returned at once
toggleModal(i, id) ==
  IF i.isExpanded /\ ~i.isAnimating
  THEN [toggleIsland(i) EXCEPT !.pendingModal = id]
  ELSE toggleModalRest(IF i.isExpanded THEN toggleIsland(i) ELSE i, id)

\* onComplete of the closing tween of toggleModal
modalCloseComplete(i, id) ==
  updateWindowSize(releaseMouse([i EXCEPT !.visibleModals = i.visibleModals \ {id},
                                          !.closingModals = i.closingModals \ {id}]))

\* the end of toggleIsland() with isAnimating left set
toggleIslandFinish_KeepsAnimating(i) ==
  LET finished == updateWindowSize([i EXCEPT !.togglePc = "idle", !.pendingModal = "none"])
  IN  IF i.pendingModal = "none" THEN finished
      ELSE toggleModalRest(finished, i.pendingModal)

\* the end of toggleIsland() with isExpanded flipped there as well
toggleIslandFinish_FlipsExpanded(i) ==
  LET finished == updateWindowSize([i EXCEPT !.isAnimating = FALSE, !.togglePc = "idle",
                                             !.isExpanded = ~i.isExpanded,
                                             !.pendingModal = "none"])
  IN  IF i.pendingModal = "none" THEN finished
      ELSE toggleModalRest(finished, i.pendingModal)

\* the end of toggleIsland(): isAnimating cleared, the window size synced; the
\* toggleModal call awaiting it continues
toggleIslandFinish(i) ==
  LET finished == updateWindowSize([i EXCEPT !.isAnimating = FALSE, !.togglePc = "idle",
                                             !.pendingModal = "none"])
  IN  IF i.pendingModal = "none" THEN finished
      ELSE toggleModalRest(finished, i.pendingModal)

\* toggleIsland() resumed after the await at togglePc, up to the next await:
\*   after the expand fade-in: the stagger tween is started and not awaited,
\*     then the window resize is requested and awaited;
\*   after the collapse fade-out: the morph tween is started;
\*   after the collapse fade-in: the window resize is requested and awaited
toggleIslandResume(i) ==
  LET next == NextAwait(i.togglePc)
      at == [i EXCEPT !.togglePc = next]
  IN  CASE next = "done" -> toggleIslandFinish(i)
        [] next = "e_resize" ->
             [at EXCEPT !.staggerRunning = TRUE, !.lastResize = ExpandedSize]
        [] next = "c_morph" -> morphTo(at, MidMorph)
        [] next = "c_resize" -> [at EXCEPT !.lastResize = CollapsedSize]
        [] OTHER -> at

\* the expanded view is displayed (its class 'hidden' is absent)
ExpandedViewShown == isExpanded \/ togglePc \in {"c_fadeOut", "c_morph"}

IslandEvent(name, i) ==
  /\ SetIsland(i)
  /\ lastOp' = name
  /\ preModals' = visibleModals
  /\ UNCHANGED <<connVars, storeVars, navbarState, greetingText, statusText,
                 progressFill, statusDot, mainVars, useStore, failures, ticks, pre, clockRead>>

\* click on the close button
CloseBtnClick ==
  /\ ExpandedViewShown
  /\ IslandEvent("closeBtn", toggleIsland(IslandRec))

\* keydown ' '
KeySpace == IslandEvent("keySpace", toggleIsland(IslandRec))

\* keydown 'Escape' without the isExpanded test
KeyEscape_NoTest == IslandEvent("keyEscape", toggleIsland(IslandRec))

\* keydown 'Escape'
KeyEscape ==
  IslandEvent("keyEscape", IF isExpanded THEN toggleIsland(IslandRec) ELSE IslandRec)

\* click on the status text
StatusTextClick ==
  IslandEvent("statusTextClick", IF ~isExpanded THEN toggleIsland(IslandRec) ELSE IslandRec)

\* the document click listener, for a target outside the island, the modals and
\* the status icons
ClickOutside ==
  LET toggled == IF isExpanded THEN toggleIsland(IslandRec) ELSE IslandRec
  IN  IslandEvent("clickOutside", [toggled EXCEPT !.visibleModals = {}])

\* click on the island itself: the island listener, then the document listener
IslandClick ==
  LET toggled == IF ~isExpanded /\ ~isAnimating THEN toggleIsland(IslandRec) ELSE IslandRec
  IN  IslandEvent("islandClick", [toggled EXCEPT !.visibleModals = {}])

\* click on a status icon
ModalBtnClick(id) == IslandEvent("toggleModal", toggleModal(IslandRec, id))

\* the closing tween of a modal completes
ModalCloseComplete(id) ==
  /\ id \in closingModals
  /\ IslandEvent("modalClosed", modalCloseComplete(IslandRec, id))

\* the boxes the island can have once the tween awaited at pc has completed
RectAfter(pc) ==
  CASE pc = "e_morph" -> Measured(ExpandedSize)
    [] pc = "c_morph" -> Measured(CollapsedSize)
    [] OTHER -> {islandRect}

\* the animation or resize toggleIsland awaits completes
AwaitCompletes ==
  /\ togglePc # "idle"
  /\ \E rect \in RectAfter(togglePc) :
       IslandEvent("awaitCompletes",
                   toggleIslandResume(IF rect = islandRect THEN IslandRec
                                      ELSE morphTo(IslandRec, rect)))

\* toggleIsland() when the promise it awaits rejects: the exception leaves the
\* function (there is no try), and the toggleModal call awaiting it as well
toggleIslandThrows(i) == [i EXCEPT !.togglePc = "idle", !.pendingModal = "none"]

\* the window resize toggleIsland awaits is rejected by the main process
AwaitRejects ==
  /\ togglePc \in {"e_resize", "c_resize"}
  /\ IslandEvent("awaitRejects", toggleIslandThrows(IslandRec))

\* the stagger tween of the expanded view's children completes
StaggerCompletes ==
  /\ staggerRunning
  /\ IslandEvent("staggerCompletes", [IslandRec EXCEPT !.staggerRunning = FALSE])

\* the debounced ResizeObserver callback runs
ResizeObserverFires ==
  /\ observerPending
  /\ IslandEvent("resizeObserver",
                 [(IF ~isAnimating THEN updateWindowSize(IslandRec) ELSE IslandRec)
                    EXCEPT !.observerPending = FALSE])

\* mouseenter on the island: an idle island wakes up, the mouse is captured
IslandMouseEnter ==
  IslandEvent("islandMouseEnter",
              captureMouse([IslandRec EXCEPT
                              !.dataState = IF dataState = "idle" THEN "collapsed"
                                            ELSE dataState]))

\* mouseenter on the component overlays
OverlayMouseEnter == IslandEvent("overlayMouseEnter", captureMouse(IslandRec))

\* mouseleave on the island or on the component overlays
MouseLeave ==
  IslandEvent("mouseLeave", IF ~isExpanded THEN releaseMouse(IslandRec) ELSE IslandRec)

\* the idle check of a second at which more than 5 s have passed since the
\* last interaction
IdleCheck ==
  IslandEvent("idleCheck",
              IF ~isExpanded /\ dataState = "collapsed"
              THEN [IslandRec EXCEPT !.dataState = "idle"]
              ELSE IslandRec)

NextIsland ==
  \/ CloseBtnClick
  \/ KeySpace
  \/ KeyEscape
  \/ StatusTextClick
  \/ ClickOutside
  \/ IslandClick
  \/ \E id \in ModalIds : ModalBtnClick(id)
  \/ \E id \in ModalIds : ModalCloseComplete(id)
  \/ AwaitCompletes
  \/ StaggerCompletes
  \/ ResizeObserverFires

SpecIsland == Init /\ [][NextIsland]_vars

\* the keyboard, a click outside and one status icon, for the properties of
\* eventual completion
NextIslandLive ==
  \/ KeySpace
  \/ KeyEscape
  \/ ClickOutside
  \/ ModalBtnClick("wifi-modal")
  \/ ModalCloseComplete("wifi-modal")
  \/ AwaitCompletes
  \/ StaggerCompletes

\* the animations and the resize acknowledgements awaited always complete
SpecIslandLive == Init /\ [][NextIslandLive]_vars /\ WF_vars(AwaitCompletes)

(***************************************************************************)
(* MAIN PROCESS: THE WINDOW RESIZE                                         *)
(* ipcMain.handle('island:resize'): an animated resize steps the window    *)
(* from the bounds it found to the size asked for, a 10 ms timer before    *)
(* each step. The window's x and y follow its size (getCenterPosition) and *)
(* are not held.                                                           *)
(***************************************************************************)
\* the sizes the renderer asks for: toggleIsland's two, and updateWindowSize
\* with and without a modal open
ResizeSizes ==
  {ExpandedSize, CollapsedSize,
   <<CollapsedWidth + ChromeMargin, CollapsedHeight + ChromeMargin>>,
   <<CollapsedWidth + ChromeMargin, ModalHeight>>}

\* Math.round(from + ((to - from) / steps) * i)
StepValue(from, to, i) == (2 * (Steps * from + (to - from) * i) + Steps) \div (2 * Steps)

\* the bounds given to setBounds at step r.i of the call r
StepBounds(r) ==
  <<StepValue(r.from[1], r.target[1], r.i), StepValue(r.from[2], r.target[2], r.i)>>

\* a handler that skips the animation when a resize is already stepping
IslandResizeStart_ImmediateWhenBusy(size) ==
  IF resizeTimers # <<>>
  THEN /\ winBounds' = size
       /\ islandStateSize' = size
       /\ UNCHANGED resizeTimers
  ELSE /\ resizeTimers' = Append(resizeTimers, [target |-> size, from |-> winBounds, i |-> 0])
       /\ UNCHANGED <<winBounds, islandStateSize>>

\* the handler up to its first await: the current bounds are read, the first
\* timer is set (the renderer always passes animated = true)
IslandResizeStart(size) ==
  /\ resizeTimers' = Append(resizeTimers, [target |-> size, from |-> winBounds, i |-> 0])
  /\ UNCHANGED <<winBounds, islandStateSize>>

\* an island:resize invocation arrives
IslandResize(size) ==
  /\ requestsMade < MaxRequests
  /\ IslandResizeStart(size)
  /\ requestsMade' = requestsMade + 1
  /\ lastRequest' = size
  /\ overlapped' = (IF resizeTimers # <<>> THEN resizeTimers[Len(resizeTimers)].target
                    ELSE <<0, 0>>)
  /\ lastOp' = "islandResize"
  /\ UNCHANGED <<connVars, storeVars, uiVars, islandVars, useStore, failures, ticks,
                 pre, preModals, clockRead>>

\* the earliest timer fires (timers of equal delay fire in the order they were
\* set): its call sets the bounds of its step, then either sets the next timer
\* or, after the last step, sets the final bounds and records them
ResizeTimerFires ==
  /\ resizeTimers # <<>>
  /\ LET r == Head(resizeTimers)
     IN  IF r.i + 1 < Steps
         THEN /\ winBounds' = StepBounds(r)
              /\ resizeTimers' = Append(Tail(resizeTimers), [r EXCEPT !.i = r.i + 1])
              /\ UNCHANGED islandStateSize
         ELSE /\ winBounds' = r.target
              /\ islandStateSize' = r.target
              /\ resizeTimers' = Tail(resizeTimers)
  /\ lastOp' = "resizeTimer"
  /\ UNCHANGED <<connVars, storeVars, uiVars, islandVars, requestsMade, lastRequest,
                 overlapped, useStore, failures, ticks, pre, preModals, clockRead>>

NextResize ==
  \/ \E size \in ResizeSizes : IslandResize(size)
  \/ ResizeTimerFires

SpecResize == Init /\ [][NextResize]_vars

(***************************************************************************)
(* lib/store.js: THE LIVE ACTIVITIES OF THE STORE                          *)
(***************************************************************************)
ActivityKinds == {"media", "timer", "bluetooth", "download"}

\* the arguments of update*Activity: isActive and one more field, each
\* present or absent
ActivityData(kind) ==
  LET full == CASE kind = "media" -> [isActive: BOOLEAN, title: {"Blinding Lights"}]
                [] kind = "timer" -> [isActive: BOOLEAN, remaining: {90}]
                [] kind = "bluetooth" -> [isActive: BOOLEAN, deviceName: {"AirPods"}]
                [] kind = "download" -> [isActive: BOOLEAN, progress: {40}]
  IN  UNION {{Restrict(f, D) : D \in SUBSET DOMAIN f} : f \in full}

\* getActiveLiveActivity() returning null
NoActivity == [type |-> "null"]

\* getActiveLiveActivity() testing the timer before the media
getActiveLiveActivity_TimerFirst(la) ==
  IF la.timer.isActive THEN [type |-> "timer", data |-> la.timer]
  ELSE IF la.media.isActive THEN [type |-> "media", data |-> la.media]
  ELSE IF la.bluetooth.isActive THEN [type |-> "bluetooth", data |-> la.bluetooth]
  ELSE IF la.download.isActive THEN [type |-> "download", data |-> la.download]
  ELSE NoActivity

\* getActiveLiveActivity()
getActiveLiveActivity(la) ==
  IF la.media.isActive THEN [type |-> "media", data |-> la.media]
  ELSE IF la.timer.isActive THEN [type |-> "timer", data |-> la.timer]
  ELSE IF la.bluetooth.isActive THEN [type |-> "bluetooth", data |-> la.bluetooth]
  ELSE IF la.download.isActive THEN [type |-> "download", data |-> la.download]
  ELSE NoActivity

\* updateMediaActivity, updateTimerActivity, updateBluetoothActivity,
\* updateDownloadActivity of the store
UpdateActivity(kind, data) ==
  /\ useStore' = [useStore EXCEPT ![kind] = Merge(@, data)]
  /\ lastOp' = "updateActivity"
  /\ UNCHANGED <<connVars, storeVars, uiVars, islandVars, mainVars, failures, ticks,
                 pre, preModals, clockRead>>

NextUseStore == \E kind \in ActivityKinds : \E data \in ActivityData(kind) : UpdateActivity(kind, data)

SpecUseStore == Init /\ [][NextUseStore]_vars

(***************************************************************************)
(* THE HANDLERS TOGETHER                                                   *)
(***************************************************************************)
\* the connection with its reconnections and frames of every sort
NextRouter ==
  \/ \E s \in Sockets : OnOpen(s)
  \/ \E s \in Sockets, wasOpen \in BOOLEAN : OnClose(s, wasOpen)
  \/ ReconnectTick
  \/ OnMessage("timer", TimerMsgsFew)
  \/ \E raw \in RawFrames : OnRawFrame(raw)

SpecRouter == Init /\ [][NextRouter]_vars

\* media frames and toggles of the island over one connection
NextIslandFrames ==
  \/ OnOpen("cur")
  \/ OnMessage("media", MediaMsgsFew)
  \/ KeySpace
  \/ AwaitCompletes

SpecIslandFrames == Init /\ [][NextIslandFrames]_vars

\* media frames, toggles, the idle check and the pointer entering the island
NextIdle ==
  \/ OnOpen("cur")
  \/ OnMessage("media", MediaMsgsFew)
  \/ KeySpace
  \/ AwaitCompletes
  \/ IdleCheck
  \/ IslandMouseEnter

SpecIdle == Init /\ [][NextIdle]_vars

\* toggles, one status icon with its closing tween, and the pointer
NextMouse ==
  \/ KeySpace
  \/ KeyEscape
  \/ ClickOutside
  \/ ModalBtnClick("wifi-modal")
  \/ ModalCloseComplete("wifi-modal")
  \/ AwaitCompletes
  \/ IslandMouseEnter
  \/ OverlayMouseEnter
  \/ MouseLeave

SpecMouse == Init /\ [][NextMouse]_vars

\* toggles and one status icon, with window resizes that can be rejected
NextFailures ==
  \/ KeySpace
  \/ KeyEscape
  \/ ModalBtnClick("wifi-modal")
  \/ ModalCloseComplete("wifi-modal")
  \/ AwaitCompletes
  \/ AwaitRejects
  \/ StaggerCompletes

SpecFailures == Init /\ [][NextFailures]_vars

(***************************************************************************)
(* Properties of the message handlers                                      *)
(***************************************************************************)

\* C1: handling a system message leaves every stored system field whose key
\* the message does not carry at its previous value.
C1_AbsentKeysUntouched ==
  [][\A data \in SystemMsgs :
       OnMessageData("system", data) =>
         /\ ~Has(data, "battery") => system'.battery.percent = system.battery.percent
         /\ ~Has(data, "isCharging") => system'.battery.isCharging = system.battery.isCharging
         /\ ~Has(data, "cpu") => system'.cpu = system.cpu
         /\ ~Has(data, "ram") => system'.ram = system.ram
         /\ ~Has(data, "network") => system'.network = system.network
         /\ system'.network.type = system.network.type]_vars

\* C2: every key a system message carries overwrites its stored field with
\* the value carried (network mapped to connected/disconnected).
C2_PresentKeysOverwrite ==
  [][\A data \in SystemMsgs :
       OnMessageData("system", data) =>
         /\ Has(data, "battery") => system'.battery.percent = data.battery
         /\ Has(data, "isCharging") => system'.battery.isCharging = data.isCharging
         /\ Has(data, "cpu") => system'.cpu = data.cpu
         /\ Has(data, "ram") => system'.ram = data.ram
         /\ Has(data, "network") =>
              system'.network.status =
                (IF NetworkIsConnected(data.network) THEN "connected" ELSE "disconnected")]_vars

\* the keys of a slice a message does not carry keep their values, the keys
\* it carries are the only ones added
SliceFrame(old, new, data) ==
  /\ DOMAIN new = DOMAIN old \cup DOMAIN data
  /\ \A k \in DOMAIN old : ~Has(data, k) => new[k] = old[k]

\* C3: a media, timer or bluetooth message changes only the keys it carries,
\* inside its own slice; the other slices, the connection and the island
\* keep their values.
C3_ActivityMergeFrame ==
  [][/\ lastOp' = "media" => \A data \in MediaMsgsFew :
          OnMessageData("media", data) =>
            /\ SliceFrame(media, media', data)
            /\ UNCHANGED <<system, timer, bluetooth, connVars, islandVars>>
     /\ lastOp' = "timer" => \A data \in TimerMsgsFew :
          OnMessageData("timer", data) =>
            /\ SliceFrame(timer, timer', data)
            /\ UNCHANGED <<system, media, bluetooth, connVars, islandVars>>
     /\ lastOp' = "bluetooth" => \A data \in BluetoothMsgsFew :
          OnMessageData("bluetooth", data) =>
            /\ SliceFrame(bluetooth, bluetooth', data)
            /\ UNCHANGED <<system, media, timer, connVars, islandVars>>]_vars

\* sparse messages of the three kinds have been merged: the timer gained the
\* key total, the media title and progress arrived without the other keys
C3_Witness ==
  /\ lastOp = "timer" /\ Has(timer, "total") /\ ~timer.isActive
  /\ media.title = "Blinding Lights" /\ media.progress = 45 /\ ~media.isActive
  /\ Has(bluetooth, "batteryLeft") /\ bluetooth.isActive /\ bluetooth.deviceName = ""
  /\ system.cpu = 45

\* C4: the stored battery percent, cpu and ram are always within 0..100.
C4_RangeClamp ==
  /\ system.battery.percent \in 0..100
  /\ system.cpu \in 0..100
  /\ system.ram \in 0..100

(***************************************************************************)
(* Properties of the connection                                            *)
(***************************************************************************)

\* C6: at most one reconnect timer is scheduled at any time; a closed event
\* that finds a timer pending schedules nothing.
C6_ReconnectSingleton ==
  /\ liveTimers <= 1
  /\ (lastOp = "onclose" /\ pre.reconnectInterval) => liveTimers = 1

\* two closed events in a row, the second one finding the timer pending
C6_Witness ==
  lastOp = "onclose" /\ pre.reconnectInterval /\ failures >= 2 /\ liveTimers = 1

\* C7: in every state where isConnected is true no reconnect timer is
\* pending: onopen clears it in the step that sets isConnected.
C7_NoTimerWhileConnected ==
  isConnected => (~reconnectInterval /\ liveTimers = 0)

\* an onopen that found the timer pending
C7_Witness ==
  lastOp = "onopen" /\ pre.reconnectInterval /\ isConnected

\* C8: reconnectAttempts is 0 after every onopen and in every Connected
\* state, and only onopen ever lowers it.
C8_ResetOnConnected ==
  /\ [](isConnected => reconnectAttempts = 0)
  /\ [][/\ (~isConnected /\ isConnected') => reconnectAttempts' = 0
        /\ reconnectAttempts' < reconnectAttempts
             => (lastOp' = "onopen" /\ isConnected' /\ reconnectAttempts' = 0)
        /\ ~isConnected' => reconnectAttempts' >= reconnectAttempts]_vars

\* an onopen that found reconnectAttempts above 0
C8_Witness ==
  lastOp = "onopen" /\ pre.reconnectAttempts >= 2 /\ ~pre.isConnected
    /\ isConnected /\ reconnectAttempts = 0

\* C9 as stated: after the k-th failed attempt (a closed event of a socket
\* that never opened), reconnectAttempts equals k.
C9_Original ==
  (lastOp = "onclose" /\ ConnectingSockets = 0) => reconnectAttempts = failures

\* C9 amended: reconnectAttempts counts the reconnect attempts the timer has
\* started since process start or the last Connected state (the initial
\* attempt is not counted), and a pending timer can always tick again.
C9_CountsTicks ==
  /\ reconnectAttempts = ticks
  /\ liveTimers > 0 => ENABLED ReconnectTickCode

\* three attempts failed one after the other from process start
C9_Witness ==
  lastOp = "onclose" /\ failures = 3 /\ reconnectAttempts = 2 /\ LiveSockets = 0

\* C5: a toggle request made while isAnimating is true changes nothing: the
\* phase, the transition in flight, the data-state, the mouse capture and (for
\* the handlers that do nothing but call toggleIsland) the modals stay as they
\* are, so isExpanded never flips twice before a transition completes.
C5_ToggleRejectedWhileAnimating ==
  [][isAnimating =>
       /\ isExpanded' = isExpanded
       /\ lastOp' \in {"closeBtn", "keySpace", "keyEscape", "statusTextClick"}
            => UNCHANGED <<islandVars, dataState>>
       /\ lastOp' \in {"clickOutside", "islandClick", "toggleModal"}
            => UNCHANGED <<isExpanded, isAnimating, togglePc, dataState>>
       /\ lastOp' \in {"clickOutside", "islandClick"} => UNCHANGED mouseCaptured]_vars

\* a Space key arrived while the expand transition was past its first await
C5_Witness ==
  lastOp = "keySpace" /\ isAnimating /\ isExpanded /\ togglePc = "e_fadeIn"

\* C11: a sendCommand call made while Connected transmits exactly one frame
\* {type, action, ...extra}; a call made while not Connected transmits none,
\* and no frame is ever transmitted outside a sendCommand call.
C11_SendOnlyWhileConnected ==
  [][/\ \A c \in Commands :
          SendCommand(c) =>
            wire' = (IF isConnected THEN Append(wire, Frame(c)) ELSE wire)
     /\ lastOp' # "sendCommand" => wire' = wire]_vars

\* C10: once the backend accepts connections and keeps them open, the client
\* eventually is Connected and stays Connected.
C10_NeverGivesUp == stable ~> [](isConnected)

\* the backend became stable after failed attempts, and the client connected
C10_Witness ==
  stable /\ isConnected /\ lastOp = "onopen" /\ pre.reconnectAttempts >= 2

(***************************************************************************)
(* Properties of the island transition                                     *)
(***************************************************************************)
\* the island's phase: transient exactly when isAnimating, and then named by
\* the direction of the transition in flight
Phase ==
  IF isAnimating THEN (IF togglePc \in {"e_morph", "e_fadeOut", "e_fadeIn", "e_resize"}
                       THEN "Expanding" ELSE "Collapsing")
  ELSE (IF isExpanded THEN "Expanded" ELSE "Collapsed")

PhaseCycle ==
  {<<"Collapsed", "Expanding">>, <<"Expanding", "Expanded">>,
   <<"Expanded", "Collapsing">>, <<"Collapsing", "Collapsed">>}

\* the handlers that call toggleIsland
ToggleRequests ==
  {"closeBtn", "keySpace", "keyEscape", "statusTextClick", "clickOutside",
   "islandClick", "toggleModal"}

\* C12: the phase moves only along Collapsed -> Expanding -> Expanded ->
\* Collapsing -> Collapsed; a transition is in flight exactly when isAnimating
\* is true; a transient phase is entered only by a handler that requests a
\* toggle and left only by the completion of the transition's last await.
C12_PhaseCycle ==
  /\ [](isAnimating <=> togglePc # "idle")
  /\ [][Phase' # Phase =>
          /\ <<Phase, Phase'>> \in PhaseCycle
          /\ isAnimating' => lastOp' \in ToggleRequests
          /\ isAnimating => /\ lastOp' = "awaitCompletes"
                            /\ NextAwait(togglePc) = "done"]_vars

\* the collapse that followed an expansion has just completed
C12_Witness ==
  lastOp = "awaitCompletes" /\ Phase = "Collapsed" /\ islandRect \in Measured(CollapsedSize)
    /\ lastResize # <<0, 0>>

\* C13 as stated: isExpanded changes value only in the step in which the
\* transition's last await completes, never in the step that accepts a toggle.
C13_Original ==
  [][isExpanded' # isExpanded => isAnimating /\ ~isAnimating']_vars

\* C13: isExpanded changes value exactly in the step that accepts a toggle, and
\* in no other step, the completion included: while a transition is in flight
\* isExpanded already holds the value the transition leads to.
C13_FlipsAtAcceptance ==
  /\ [][(isExpanded' # isExpanded) <=> (~isAnimating /\ isAnimating')]_vars
  /\ [](isAnimating => (isExpanded <=> Phase = "Expanding"))

\* a Space key was accepted while collapsed: the expansion is at its first await
C13_Witness ==
  lastOp = "keySpace" /\ isAnimating /\ togglePc = "e_morph" /\ isExpanded

\* C14: within a transition a step starts only after the step before it has
\* completed: the window resize is requested, and later isAnimating cleared,
\* only once the stagger reveal of the expanded view's children is over.
C14_StepsSequential ==
  /\ togglePc = "e_resize" => ~staggerRunning
  /\ ~isAnimating => ~staggerRunning

\* C15: every accepted toggle eventually clears isAnimating, the animations
\* and resize acknowledgements it awaits completing; and isAnimating is true
\* in no state without a transition in flight.
C15_AnimatingEventuallyCleared ==
  /\ isAnimating ~> ~isAnimating
  /\ [](isAnimating => togglePc # "idle")

\* an accepted expansion has run through its four awaits and cleared isAnimating
C15_Witness ==
  lastOp = "awaitCompletes" /\ ~isAnimating /\ isExpanded /\ islandRect \in Measured(ExpandedSize)

(***************************************************************************)
(* Properties of the modals                                                *)
(***************************************************************************)
\* C16: at most one modal is visible in every reachable state, and the step
\* that makes a modal visible leaves no other modal visible.
C16_AtMostOneModal ==
  /\ [](Cardinality(visibleModals) <= 1)
  /\ [][\A id \in ModalIds :
          id \in visibleModals' /\ id \notin visibleModals => visibleModals' = {id}]_vars

\* the battery modal was opened while the wifi modal was visible
C16_Witness ==
  lastOp = "toggleModal" /\ preModals = {"wifi-modal"} /\ visibleModals = {"battery-modal"}

\* C17: no modal is visible while the island is expanding or expanded.
C17_NoModalWhileExpanded ==
  Phase \in {"Expanding", "Expanded"} => visibleModals = {}

(***************************************************************************)
(* Properties of the keyboard and of the click outside                     *)
(***************************************************************************)
\* C18 as stated: from Collapsed or Collapsing, Escape and a click outside
\* change nothing; Space starts a transition exactly when none is in flight.
C18_Original ==
  [][/\ lastOp' \in {"keyEscape", "clickOutside"} /\ Phase \in {"Collapsed", "Collapsing"}
          => UNCHANGED <<islandVars, dataState>>
     /\ lastOp' = "keySpace" => (Phase' # Phase <=> ~isAnimating)]_vars

\* C18: Escape and a click outside call toggleIsland only while isExpanded is
\* true: from Collapsed or Collapsing Escape changes nothing, and the click
\* changes nothing but the modals, which it hides, so neither starts an
\* expansion; from Expanded both start the collapse.  Space calls toggleIsland
\* in every phase, and the call is accepted exactly when no transition is in
\* flight.
C18_KeysRespectPhase ==
  [][/\ lastOp' = "keyEscape" /\ Phase \in {"Collapsed", "Collapsing"}
          => UNCHANGED <<islandVars, dataState>>
     /\ lastOp' = "clickOutside" /\ Phase \in {"Collapsed", "Collapsing"}
          => /\ visibleModals' = {}
             /\ UNCHANGED <<isExpanded, isAnimating, togglePc, closingModals, pendingModal,
                            mouseCaptured, staggerRunning, islandRect, observerPending,
                            lastResize, dataState>>
     /\ lastOp' \in {"keyEscape", "clickOutside"} /\ Phase = "Expanded"
          => Phase' = "Collapsing"
     /\ lastOp' \in {"keyEscape", "clickOutside"} => Phase' # "Expanding" \/ Phase = "Expanding"
     /\ lastOp' = "keySpace" => (Phase' # Phase <=> ~isAnimating)]_vars

\* a click outside while collapsed with a modal open: the modal is hidden, the
\* island stays collapsed
C18_Witness ==
  lastOp = "clickOutside" /\ Phase = "Collapsed" /\ preModals # {} /\ visibleModals = {}
    /\ ~isExpanded

(***************************************************************************)
(* Properties of the window geometry                                       *)
(***************************************************************************)
\* the size updateWindowSize requests for the island's box and the modals now
SyncedSize ==
  <<islandRect[1] + ChromeMargin,
    IF visibleModals # {} THEN ModalHeight ELSE islandRect[2] + ChromeMargin>>

\* C19: when a transition has completed, the last resize request sent is the
\* island's measured box plus the chrome margin, with the modal height when a
\* modal is visible at that moment, and never the size the animation aimed at.
C19_CommittedGeometry ==
  lastOp = "awaitCompletes" /\ ~isAnimating =>
    /\ lastResize = SyncedSize
    /\ lastResize \notin {ExpandedSize, CollapsedSize}

\* a collapse started by a status icon has completed: the modal it was waiting
\* to open is visible and the window has the modal height
C19_Witness ==
  lastOp = "awaitCompletes" /\ ~isAnimating /\ ~isExpanded /\ visibleModals # {}
    /\ lastResize[2] = ModalHeight /\ islandRect \in Measured(CollapsedSize)

\* no transition, closing tween, stagger tween or observer callback is pending
Quiescent ==
  ~isAnimating /\ closingModals = {} /\ ~staggerRunning /\ ~observerPending

\* C20: once the interface is quiescent, the last resize request has the modal
\* height exactly when a modal is visible.
C20_ModalHeightInSync ==
  Quiescent => (lastResize[2] = ModalHeight <=> visibleModals # {})

(***************************************************************************)
(* Properties of the collapsed status                                      *)
(***************************************************************************)
\* the kinds of frame that merge into the store
StoreKinds == {"system", "media", "timer", "bluetooth"}

\* the music headline updateCollapsedStatus writes for the media slice m
MediaHeadline(m) ==
  IF m.title # "" /\ m.title \notin Placeholders
  THEN m.title \o Bullet \o m.artist
  ELSE "Now Playing"

\* C21: after any store frame that leaves media active and playing and a timer
\* active, the collapsed status is the media headline, whichever of the media
\* and timer frames came last.
C21_MediaOverTimer ==
  [][lastOp' \in StoreKinds /\ media'.isActive /\ media'.isPlaying /\ timer'.isActive
       => statusText' = MediaHeadline(media') /\ navbarState' = "activity"]_vars

\* a timer frame activated the timer while media was playing
C21_Witness ==
  lastOp = "timer" /\ timer.isActive /\ media.isActive /\ media.isPlaying
    /\ statusText = MediaHeadline(media)

\* C22: after a store frame that leaves media not playing, the collapsed status
\* is the greeting only when neither a timer nor bluetooth is active: an active
\* timer, and after it an active bluetooth device, has the headline.
C22_FixedPriority ==
  [][lastOp' \in StoreKinds /\ ~(media'.isActive /\ media'.isPlaying)
       => (statusText' = greetingText' <=> ~timer'.isActive /\ ~bluetooth'.isActive)]_vars

\* C23: after a media frame that leaves media active and playing with a title
\* that is not empty and not a placeholder and a duration above zero, the
\* collapsed status is "<title> . <artist>" and the progress fill is
\* progress / duration x 100 percent (here in tenths of a percent); the frame
\* of 'Blinding Lights' by 'The Weeknd' at 45 of 200 gives 22.5%.
C23_MediaHeadlineAndProgress ==
  [][lastOp' = "media" /\ media'.isActive /\ media'.isPlaying /\ media'.title # ""
        /\ media'.title \notin Placeholders /\ media'.duration > 0
       => /\ statusText' = media'.title \o Bullet \o media'.artist
          /\ progressFill' * media'.duration <= media'.progress * 1000
          /\ (progressFill' + 1) * media'.duration > media'.progress * 1000
          /\ (media'.title = "Blinding Lights" /\ media'.artist = "The Weeknd"
                /\ media'.progress = 45 /\ media'.duration = 200)
               => (statusText' = "Blinding Lights . The Weeknd" /\ progressFill' = 225)]_vars

\* the frame of the example has been handled
C23_Witness ==
  lastOp = "media" /\ media.isActive /\ media.isPlaying /\ media.progress = 45
    /\ media.duration = 200 /\ statusText = "Blinding Lights . The Weeknd"
    /\ progressFill = 225

\* the collapsed status updateCollapsedStatus resolves from the media slice m
\* and the cached greeting g
Projection(m, g) == IF m.isActive /\ m.isPlaying THEN MediaHeadline(m) ELSE g

\* C24: a frame is handled in one piece, merge and projection: after each
\* system, media, timer or bluetooth frame the collapsed status is the
\* projection of the store as the frame left it.
C24_ProjectionCurrent ==
  [][lastOp' \in StoreKinds
       => /\ statusText' = Projection(media', greetingText')
          /\ navbarState' = (IF media'.isActive /\ media'.isPlaying
                             THEN "activity" ELSE "greeting")]_vars

\* a bluetooth frame was handled while music was playing
C24_Witness ==
  lastOp = "bluetooth" /\ bluetooth.isActive /\ media.isActive /\ media.isPlaying
    /\ statusText = Projection(media, greetingText)

(***************************************************************************)
(* Properties of the message router                                        *)
(***************************************************************************)
\* C25: a frame that cannot be parsed or whose kind is unknown is dropped: the
\* handler returns, the store, the connection state, the island state and the
\* collapsed status stay as they are, and the next frame is still handled.
C25_BadFramesDropped ==
  /\ [][\A raw \in BadFrames :
          OnRawFrame(raw) =>
            /\ lastOp' = "dropped"
            /\ UNCHANGED <<storeVars, connVars, islandVars, uiVars>>]_vars
  /\ [](lastOp = "dropped" => ENABLED OnMessageData("timer", [isActive |-> TRUE]))

\* a frame was dropped while the reconnect timer was live, after a timer frame
C25_Witness ==
  lastOp = "dropped" /\ reconnectInterval /\ reconnectAttempts > 0 /\ timer.isActive

\* C26: whenever the connection is not Connected the status text shows the
\* connection phase, 'Connecting...' or 'Disconnected', and no greeting or
\* media headline.
C26_StatusShowsPhase ==
  ~isConnected => statusText \in {"Connecting...", "Disconnected"}

\* C27: within an idle period a recomputation of the collapsed status reuses
\* the cached greeting, and the first recomputation after an activity has
\* ended computes the greeting afresh from the time of day.
C27_GreetingPerIdlePeriod ==
  [][lastOp' \in StoreKinds =>
       /\ navbarState = "greeting" /\ greetingText # "" /\ navbarState' = "greeting"
            => greetingText' = greetingText /\ ~clockRead'
       /\ navbarState = "activity" /\ navbarState' = "greeting" => clockRead']_vars

(***************************************************************************)
(* Properties of the stored activities                                     *)
(***************************************************************************)
\* C28: the stored media progress is at most the stored media duration, and
\* the stored timer remaining is at most the stored timer total when the timer
\* has one.
C28_ProgressWithinBounds ==
  /\ media.progress <= media.duration
  /\ Has(timer, "total") => timer.remaining <= timer.total

(***************************************************************************)
(* Properties of frames and resizes during a transition                    *)
(***************************************************************************)
\* C29: a frame can be handled in every state of a transition in flight, and
\* the step that handles it stores the merge of a frame, projects the merged
\* slice, and changes neither isExpanded nor isAnimating nor the awaits left
\* to the transition.
C29_FramesDuringTransition ==
  [][/\ isAnimating /\ wsState = "open"
          => ENABLED OnMessageData("media", [isPlaying |-> TRUE])
     /\ isAnimating /\ lastOp' = "media" =>
          /\ statusText' = Projection(media', greetingText')
          /\ UNCHANGED islandVars
          /\ \E data \in MediaMsgsFew : media' = Merge(media, data)]_vars

\* a media frame started the music headline while the island was expanding
C29_Witness ==
  lastOp = "media" /\ isAnimating /\ togglePc = "e_fadeOut" /\ media.isActive
    /\ media.isPlaying /\ navbarState = "activity"

\* C30: while a transition is in flight the only resize requests sent are the
\* transition's own, for the size it animates to: no step taken with
\* isAnimating true before and after sends a request measured from the island.
C30_NoSyncWhileAnimating ==
  [][isAnimating /\ isAnimating'
       => lastResize' = lastResize \/ lastResize' \in {ExpandedSize, CollapsedSize}]_vars

(***************************************************************************)
(* Properties of the sockets                                               *)
(***************************************************************************)
\* C31: at most one WebSocket created by the client is connecting or open at
\* any time: a reconnect tick never creates a socket while an earlier one is
\* still connecting or open.
C31_AtMostOneLiveSocket == LiveSockets <= 1

\* C32: isConnected is true exactly when the socket state.connection.ws
\* refers to is open; the events of a superseded socket never make the two
\* disagree.
C32_ConnectedIffCurrentOpen == isConnected <=> wsState = "open"

\* C33: whenever isConnected is false, a connection attempt is in flight (a
\* socket that has fired neither opened nor closed) or the reconnect timer is
\* pending and can tick.
C33_NeverStuck ==
  ~isConnected =>
    \/ ConnectingSockets > 0
    \/ reconnectInterval /\ liveTimers > 0 /\ ENABLED ReconnectTickCode

\* an established connection dropped: no socket is left, the timer is pending
C33_Witness ==
  /\ lastOp = "onclose" /\ pre.isConnected /\ ~isConnected
  /\ LiveSockets = 0 /\ reconnectInterval /\ liveTimers = 1

(***************************************************************************)
(* Properties of the island's attribute and of the mouse capture           *)
(***************************************************************************)
\* C34: the island's data-state attribute is 'expanded' whenever isExpanded
\* is true, and one of 'collapsed', 'idle', 'music' whenever it is false.
C34_DataStateMatchesPhase ==
  IF isExpanded THEN dataState = "expanded"
  ELSE dataState \in {"collapsed", "idle", "music"}

\* C35: whenever the island is expanded or a modal is visible, the last
\* setIgnoreMouseEvents call made is capture.
C35_CapturedWhileInteractive ==
  (isExpanded \/ visibleModals # {}) => mouseCaptured

\* C36: once an opened or closed event has been handled, the status dot shows
\* 'disconnected' exactly when isConnected is false.
\* (The class the markup gives the dot before the first projection is taken
\* to match.)
C36_DotMatchesConnection ==
  lastOp \in {"onopen", "onclose"} /\ statusDot # "asLoaded"
    => (statusDot = "disconnected" <=> ~isConnected)

\* C37: when a step toggleIsland awaits fails, isAnimating is cleared, so the
\* controller is not left with isAnimating set and no transition in flight.
C37_FailureClearsAnimating ==
  /\ lastOp = "awaitRejects" => ~isAnimating
  /\ togglePc = "idle" => ~isAnimating

(***************************************************************************)
(* Properties of the main process                                          *)
(***************************************************************************)
\* C38: when island:resize invocations overlap, once all of them have
\* finished the window's size and the size islandState records are those of
\* the latest invocation, and no call is left that could set the bounds again.
C38_LaterRequestWins ==
  (requestsMade > 0 /\ resizeTimers = <<>>) =>
    /\ winBounds = lastRequest
    /\ islandStateSize = lastRequest
    /\ ~ENABLED ResizeTimerFires

\* a request for another size arrived while the earlier one was stepping, and
\* both have finished
C38_Witness ==
  /\ overlapped # <<0, 0>> /\ overlapped # lastRequest
  /\ resizeTimers = <<>> /\ requestsMade = 2
  /\ winBounds = lastRequest /\ lastOp = "resizeTimer"

(***************************************************************************)
(* Properties of the store                                                 *)
(***************************************************************************)
\* the order of the claim
ActivityOrder == <<"media", "timer", "bluetooth", "download">>

\* C39: getActiveLiveActivity returns the first live activity whose isActive
\* is true in the order media, timer, bluetooth, download, with that
\* activity's data, and returns null exactly when none is active.
C39_FirstActiveInOrder ==
  LET result == getActiveLiveActivity(useStore)
  IN  /\ result = NoActivity <=> \A kind \in ActivityKinds : ~useStore[kind].isActive
      /\ \A n \in 1..4 :
           (/\ useStore[ActivityOrder[n]].isActive
            /\ \A j \in 1..(n - 1) : ~useStore[ActivityOrder[j]].isActive)
             => result = [type |-> ActivityOrder[n], data |-> useStore[ActivityOrder[n]]]

\* media inactive again after an update, timer and download active: the timer
\* is returned with its data
C39_Witness ==
  /\ lastOp = "updateActivity"
  /\ ~useStore.media.isActive /\ useStore.media.title = "Blinding Lights"
  /\ useStore.timer.isActive /\ useStore.timer.remaining = 90
  /\ ~useStore.bluetooth.isActive /\ useStore.download.isActive
  /\ getActiveLiveActivity(useStore) = [type |-> "timer", data |-> useStore.timer]

====
